---- MODULE Spec2Model ----
(***************************************************************************)
(* State machine of the agent dashboard (src/App.tsx) together with the    *)
(* REST wrapper (src/services/api.ts) and the all_states subscription      *)
(* (src/services/firestore.ts).  One action per event-loop task: a UI      *)
(* click, a timer callback, a promise continuation of an async handler, a  *)
(* snapshot callback.  React state updates of one task are committed       *)
(* together, so every action is one render.                                *)
(***************************************************************************)
EXTENDS Integers, Sequences, FiniteSets, Bags, TLC

(***************************************************************************)
(* Bounds of the model.                                                    *)
(***************************************************************************)
\* operator clicks on agent controls that are followed in one behaviour
MaxClicks == 1
\* REST status polls (fetchStatuses invocations) that may be in flight at once
MaxPolls == 2
\* COA report documents handed to the export
MaxDocs == 2
\* operator clicks followed when only the action handlers run
MaxBurst == 3
\* invocations of handleToggleAutomatedMode in one behaviour
MaxToggles == 2

(***************************************************************************)
(* Program constants.                                                      *)
(***************************************************************************)
\* setInterval(fetchStatuses, 10000), in seconds
PollIntervalSec == 10
\* setInterval(fetchStatuses, 2000) of the active polling effect, in seconds
ActivePollIntervalSec == 2
\* a timer that is not armed
NoTimer == -1

\* the agents with an action button whose status is polled (first entries of
\* the agentNames list); the handlers treat all five alike
AgentNames == <<"notification_agent", "scenario_agent">>
ActionAgents == {AgentNames[i] : i \in 1..Len(AgentNames)}
TimeSavingsAgent == "time_savings_agent"
AllAgents == ActionAgents \cup {TimeSavingsAgent}

\* agent.name, the value held by `loading`
AgentName(a) ==
  CASE a = "notification_agent" -> "Safety Agent"
    [] a = "scenario_agent" -> "Scenario Agent"
    [] OTHER -> "Time Savings Agent"

(***************************************************************************)
(* JavaScript values.                                                      *)
(***************************************************************************)
Absent == "<undefined>"
JNull == "<null>"
NoLoading == "<null>"

\* values that are not strings: true, a function, an object
JTrue == "<true>"
JFunction == "<function>"
JObject == "<object>"
\* typeof v === 'string'
IsString(v) == v \notin {Absent, JNull, JTrue, JFunction, JObject}

\* JS truthiness of the values the model uses
Truthy(v) == v \notin {Absent, JNull, ""}
\* a || b || c
Or3(a, b, c) == IF Truthy(a) THEN a ELSE IF Truthy(b) THEN b ELSE c

\* values the backend writes into <agent>_state fields
StateValues == {"idle", "generating", "completed", "error"}
\* values of a field of the all_states document as the listener sees it
StateFieldValues == StateValues \cup {Absent, JNull}
LastActivityValues == {Absent}
AutomatedModeValues == {Absent, "ON", "OFF"}
\* state of a REST status response (type AgentStatus)
RestStates == {"idle", "active"}

\* one entry of agentFirestoreStates: a missing key, null, or an object
UndefinedEntry ==
  [tag |-> "undefined", state |-> Absent, status |-> Absent,
   agent_state |-> Absent, last_activity |-> Absent]
NullEntry ==
  [tag |-> "null", state |-> Absent, status |-> Absent,
   agent_state |-> Absent, last_activity |-> Absent]
Obj(s, st, as, la) ==
  [tag |-> "object", state |-> s, status |-> st, agent_state |-> as,
   last_activity |-> la]

\* { ...base, ...prev }: the keys of prev win; spreading null/undefined adds nothing
Spread(base, prev) ==
  IF prev.tag = "object"
  THEN [tag |-> "object",
        state |-> IF prev.state # Absent THEN prev.state ELSE base.state,
        status |-> IF prev.status # Absent THEN prev.status ELSE base.status,
        agent_state |-> IF prev.agent_state # Absent THEN prev.agent_state
                        ELSE base.agent_state,
        last_activity |-> IF prev.last_activity # Absent THEN prev.last_activity
                          ELSE base.last_activity]
  ELSE base

\* the entry written by the optimistic update of handleAgentAction
OptimisticEntry(prev) == Spread(Obj("active", "active", "active", Absent), prev)
\* the entry written by the two revert branches of handleAgentAction
RevertedEntry(prev) == Spread(Obj("idle", "idle", "idle", Absent), prev)

\* currentState?.state || currentState?.status || currentState?.agent_state
StateValueOf(e) ==
  IF e.tag = "object" THEN Or3(e.state, e.status, e.agent_state) ELSE Absent

\* String.prototype.toLowerCase on the values of the model
ToLower(s) ==
  CASE s = "ACTIVE" -> "active"
    [] s = "IDLE" -> "idle"
    [] s = "GENERATING" -> "generating"
    [] s = "PROCESSING" -> "processing"
    [] s = "COMPLETED" -> "completed"
    [] s = "ERROR" -> "error"
    [] OTHER -> s

\* timeAgentState before its listener has delivered a document
NoTimeAgentState ==
  [tag |-> "null", state |-> Absent, time_agent_state |-> Absent, status |-> Absent]

\* no getStatusBadge call is looked at
NoBadgeInput ==
  [agentName |-> Absent, entry |-> UndefinedEntry,
   timeState |-> NoTimeAgentState, apiState |-> Absent]

VARIABLES
  isInitialLoad,         \* useState(true), cleared by the 2 s timer
  automatedMode,         \* useState(false)
  corsError,             \* useState(false)
  loading,               \* useState<string|null>(null): agent.name or null
  agentFirestoreStates,  \* useState({}): apiName -> entry
  agentStatuses,         \* useState({}): apiName -> REST state or Absent
  togglingAutomatedMode, \* useState(false)
  listener,              \* all_states subscription: "active" | "errored"
  allStatesData,         \* the document of the last snapshot: <<>> is null
  corsBlocked,           \* environment: the backend rejects the frontend origin
  actions,               \* handleAgentAction invocations awaiting agent.action()
  loadingTimers,         \* pending setTimeout(() => setLoading(null), 3000)
  polls,                 \* running fetchStatuses invocations
  toggleCall,            \* handleToggleAutomatedMode awaiting api.toggleAutomatedMode()
  clicksAccepted,        \* handleAgentAction invocations past the guard
  actionRequests,        \* agent-action REST requests issued
  toggleRequests,        \* automated-mode toggle REST requests issued
  pollTimer,             \* seconds until the 10 s interval callback is due
  activeTimer,           \* seconds until the 2 s interval callback is due, or NoTimer
  sincePoll,             \* seconds since the last fetchStatuses() started
  store,                 \* the all_states document as Firestore holds it: <<>> is missing
  coaReportsForDownload, \* useState([]): the COA report documents of the listener
  workbook,              \* the document the exported workbook was built from: <<>> is none
  failedActions,         \* agents whose last action REST call failed (ok === false or threw)
  alerts,                \* the alert() calls of the last step: <<kind, agent.name>>
  badgeInput,            \* the arguments and state read by one getStatusBadge call
  statusBadge            \* what that getStatusBadge call displays: Absent is no call yet

\* written by the listener and handleAgentAction
reconVars == <<agentFirestoreStates, loading, actions, loadingTimers,
               clicksAccepted, actionRequests>>
\* written by the status effect and the active polling effect
pollVars == <<corsError, agentStatuses, polls>>
clockVars == <<pollTimer, activeTimer, sincePoll>>
\* written by handleToggleAutomatedMode
toggleVars == <<togglingAutomatedMode, toggleCall, toggleRequests>>

\* everything but the alerts
stateVars ==
  <<statusBadge, badgeInput, failedActions, workbook, coaReportsForDownload,
    store, isInitialLoad, automatedMode, listener, allStatesData,
    corsBlocked, reconVars, pollVars, clockVars, toggleVars>>

vars == <<alerts, stateVars>>

RemoveAt(s, i) == [j \in 1..(Len(s) - 1) |-> IF j < i THEN s[j] ELSE s[j + 1]]

NoStatuses == [a \in ActionAgents |-> Absent]

(***************************************************************************)
(* REST wrapper.                                                           *)
(***************************************************************************)
\* what the network does with a request: the fetch promise rejects
\* ("Failed to fetch"), resolves with a non-2xx response, or with a 2xx one
NetworkEvents == {"failed_to_fetch", "http_error", "json"}

\* fetchWithErrorHandling: the JSON body, or the error it throws
FetchWithErrorHandling(ev) ==
  CASE ev = "failed_to_fetch" -> "CORS_ERROR"
    [] ev = "http_error" -> "HTTP_ERROR"
    [] OTHER -> "json"

\* the network events a request can end in; `blocked`: the backend rejects
\* the frontend origin
EventsOf(blocked) == IF blocked THEN {"failed_to_fetch"} ELSE {"http_error", "json"}

\* error.message?.includes('CORS_ERROR')
IsCorsError(r) == r = "CORS_ERROR"

\* a fetchStatuses invocation of the status effect, suspended at
\* api.getAutomatedModeStatus(); startBlocked remembers whether the backend
\* rejected the origin when the poll started
NewMainPoll ==
  [kind |-> "main", pc |-> 0, blocked |-> corsBlocked,
   startBlocked |-> corsBlocked, statuses |-> NoStatuses]
\* a fetchStatuses invocation of the active polling effect, suspended at the
\* first api.getAgentStatus()
NewActivePoll ==
  [kind |-> "active", pc |-> 1, blocked |-> corsBlocked,
   startBlocked |-> corsBlocked, statuses |-> NoStatuses]

NoToggleCall == [pending |-> FALSE, newState |-> FALSE, initialLoad |-> FALSE]

\* the state after the first render and its effects: the listeners are
\* subscribed, the 10 s interval is armed and the first fetchStatuses() call
\* is awaiting its first request
AppInit ==
  /\ isInitialLoad = TRUE
  /\ statusBadge = Absent
  /\ alerts = {}
  /\ failedActions = {}
  /\ workbook = <<>>
  /\ store = <<>>
  /\ automatedMode = FALSE
  /\ corsError = FALSE
  /\ loading = NoLoading
  /\ agentFirestoreStates = [a \in AllAgents |-> UndefinedEntry]
  /\ agentStatuses = NoStatuses
  /\ togglingAutomatedMode = FALSE
  /\ listener = "active"
  /\ allStatesData = <<>>
  /\ actions = EmptyBag
  /\ loadingTimers = 0
  /\ polls = <<[kind |-> "main", pc |-> 0, blocked |-> corsBlocked,
                startBlocked |-> corsBlocked, statuses |-> NoStatuses]>>
  /\ toggleCall = NoToggleCall
  /\ clicksAccepted = 0
  /\ actionRequests = 0
  /\ toggleRequests = 0
  /\ pollTimer = PollIntervalSec
  /\ activeTimer = NoTimer
  /\ sincePoll = 0

\* no COA report has been delivered yet and no badge is looked at; the
\* backend may or may not accept the frontend origin
Init ==
  /\ corsBlocked \in BOOLEAN
  /\ AppInit
  /\ coaReportsForDownload = <<>>
  /\ badgeInput = NoBadgeInput

\* the same with a backend that accepts the frontend origin
OnlineInit == Init /\ ~corsBlocked

\* the 2 s timer of the initial-load effect
InitialLoadTimer ==
  /\ isInitialLoad
  /\ isInitialLoad' = FALSE
  /\ alerts' = {}
  /\ UNCHANGED <<statusBadge, badgeInput, failedActions, workbook,
                 coaReportsForDownload, store, automatedMode, listener,
                 allStatesData, corsBlocked, reconVars, pollVars, clockVars,
                 toggleVars>>

\* the backend operator deploys the CORS configuration
BackendFix ==
  /\ corsBlocked
  /\ corsBlocked' = FALSE
  /\ alerts' = {}
  /\ UNCHANGED <<statusBadge, badgeInput, failedActions, workbook,
                 coaReportsForDownload, store, isInitialLoad, automatedMode,
                 listener, allStatesData, reconVars, pollVars, clockVars,
                 toggleVars>>

(***************************************************************************)
(* Active polling effect (deps [agentStatuses, loading]): every render     *)
(* with a new agentStatuses object or a new loading value clears the 2 s   *)
(* interval and arms a new one if an agent is active.                      *)
(***************************************************************************)
HasActiveAgent(statuses, ld) ==
  (\E a \in ActionAgents : statuses[a] = "active") \/ ld # NoLoading

ActiveTimerAfter(statuses, ld) ==
  IF HasActiveAgent(statuses, ld) THEN ActivePollIntervalSec ELSE NoTimer

(***************************************************************************)
(* Completion alert effect (deps [agentFirestoreStates, isInitialLoad]).   *)
(* prevAgentStatesRef holds the entries of the previous render, so the     *)
(* effect compares the entries before and after the step.                  *)
(***************************************************************************)
Normalized(e) == ToLower(StateValueOf(e))
WasActive(e) == Normalized(e) \in {"active", "generating", "processing"}
IsNowIdle(e) == Normalized(e) \in {"idle", "completed"}

\* variant: the effect without its initial-load check
CompletionAlertsAlways(prevStates, curStates, initialLoad) ==
  {<<"completed", AgentName(a)>> : a \in
     {b \in ActionAgents :
        /\ curStates[b].tag = "object"
        /\ prevStates[b].tag = "object"
        /\ WasActive(prevStates[b])
        /\ IsNowIdle(curStates[b])}}

\* the alerts of one run of the effect, for the entries of the previous and
\* of the current render
CompletionAlerts(prevStates, curStates, initialLoad) ==
  {<<"completed", AgentName(a)>> : a \in
     {b \in ActionAgents :
        /\ curStates[b].tag = "object"
        /\ prevStates[b].tag = "object"
        /\ WasActive(prevStates[b])
        /\ IsNowIdle(curStates[b])
        /\ ~initialLoad}}

(***************************************************************************)
(* all_states listener (FirestoreService.listenToAgentState).              *)
(***************************************************************************)
\* the fields of an all_states document the callback reads
SnapshotData ==
  [automated_mode : AutomatedModeValues,
   state : [ActionAgents -> StateFieldValues],
   last_activity : [ActionAgents -> LastActivityValues]]

\* the documents the next snapshot can carry: any document for the first
\* snapshot; afterwards the document of the last snapshot with at most one
\* of its fields rewritten by the backend
NextSnapshots(last) ==
  IF last = <<>> THEN SnapshotData
  ELSE {last[1]}
       \cup {[last[1] EXCEPT !.automated_mode = m] : m \in AutomatedModeValues}
       \cup {[last[1] EXCEPT !.state[a[1]] = a[2]] :
               a \in ActionAgents \X StateFieldValues}
       \cup {[last[1] EXCEPT !.last_activity[a[1]] = a[2]] :
               a \in ActionAgents \X LastActivityValues}

\* the `states` object the callback builds from a document
SnapshotStates(data) ==
  [a \in AllAgents |->
     IF a = TimeSavingsAgent THEN UndefinedEntry
     ELSE IF data.state[a] # Absent /\ data.state[a] # JNull
          THEN Obj(data.state[a], Absent, Absent,
                   IF Truthy(data.last_activity[a]) THEN data.last_activity[a]
                   ELSE JNull)
          ELSE NullEntry]

\* the `states` object of the missing-document and the error branch
AllNullStates ==
  [a \in AllAgents |-> IF a = TimeSavingsAgent THEN UndefinedEntry ELSE NullEntry]

\* variant: the callback keeps the entries of agents with an action in flight
AllStatesSnapshotMerging(data) ==
  /\ listener = "active"
  /\ data \in NextSnapshots(allStatesData)
  /\ store' = <<data>>
  /\ allStatesData' = <<data>>
  /\ automatedMode' = IF data.automated_mode # Absent
                      THEN data.automated_mode = "ON"
                      ELSE automatedMode
  /\ agentFirestoreStates' =
       [a \in AllAgents |->
          IF \E act \in BagToSet(actions) : act.agent = a
          THEN agentFirestoreStates[a]
          ELSE SnapshotStates(data)[a]]
  /\ alerts' = CompletionAlerts(agentFirestoreStates, agentFirestoreStates',
                               isInitialLoad)
  /\ UNCHANGED <<statusBadge, badgeInput, failedActions, workbook,
                 coaReportsForDownload, isInitialLoad, listener, corsBlocked,
                 loading, actions, loadingTimers, clicksAccepted,
                 actionRequests, pollVars, clockVars, toggleVars>>

\* callback(data) with an existing document: the backend has written the
\* document and the SDK delivers it
AllStatesSnapshot(data) ==
  /\ listener = "active"
  /\ data \in NextSnapshots(allStatesData)
  /\ store' = <<data>>
  /\ allStatesData' = <<data>>
  /\ automatedMode' = IF data.automated_mode # Absent
                      THEN data.automated_mode = "ON"
                      ELSE automatedMode
  /\ agentFirestoreStates' = SnapshotStates(data)
  /\ alerts' = CompletionAlerts(agentFirestoreStates, agentFirestoreStates',
                               isInitialLoad)
  /\ UNCHANGED <<statusBadge, badgeInput, failedActions, workbook,
                 coaReportsForDownload, isInitialLoad, listener, corsBlocked,
                 loading, actions, loadingTimers, clicksAccepted,
                 actionRequests, pollVars, clockVars, toggleVars>>

\* callback(null): the document does not exist (the backend has deleted it)
AllStatesMissing ==
  /\ listener = "active"
  /\ store' = <<>>
  /\ agentFirestoreStates' = AllNullStates
  /\ automatedMode' = FALSE
  /\ alerts' = CompletionAlerts(agentFirestoreStates, agentFirestoreStates',
                               isInitialLoad)
  /\ UNCHANGED <<statusBadge, badgeInput, failedActions, workbook,
                 coaReportsForDownload, isInitialLoad, listener,
                 allStatesData, corsBlocked, loading, actions, loadingTimers,
                 clicksAccepted, actionRequests, pollVars, clockVars,
                 toggleVars>>

\* onError: the SDK ends the subscription after reporting an error, and the
\* effect (deps []) subscribes only on mount
AllStatesError ==
  /\ listener = "active"
  /\ agentFirestoreStates' = AllNullStates
  /\ listener' = "errored"
  /\ alerts' = CompletionAlerts(agentFirestoreStates, agentFirestoreStates',
                               isInitialLoad)
  /\ UNCHANGED <<statusBadge, badgeInput, failedActions, workbook,
                 coaReportsForDownload, store, isInitialLoad, automatedMode,
                 allStatesData, corsBlocked, loading, actions, loadingTimers,
                 clicksAccepted, actionRequests, pollVars, clockVars,
                 toggleVars>>

(***************************************************************************)
(* handleAgentAction and the agent card controls.                          *)
(***************************************************************************)
IsLoading(a) == loading = AgentName(a)
IsDisabled(a) == automatedMode \/ IsLoading(a)

\* an invocation of handleAgentAction: its agent and the isInitialLoad of
\* the render that created the handler
ActionCalls == [agent : ActionAgents, initialLoad : BOOLEAN]

\* variant: the handler also writes the optimistic state to the document
StartAgentActionWriting(a) ==
  /\ store' = IF store = <<>>
               THEN <<[automated_mode |-> Absent,
                       state |-> [b \in ActionAgents |->
                                    IF b = a THEN "active" ELSE Absent],
                       last_activity |-> [b \in ActionAgents |-> Absent]]>>
               ELSE <<[store[1] EXCEPT !.state[a] = "active"]>>
  /\ agentFirestoreStates' =
       [agentFirestoreStates EXCEPT ![a] = OptimisticEntry(@)]
  /\ loading' = AgentName(a)
  /\ actions' = actions (+) SetToBag({[agent |-> a, initialLoad |-> isInitialLoad]})
  /\ clicksAccepted' = clicksAccepted + 1
  /\ actionRequests' = actionRequests + 1
  /\ failedActions' = failedActions \ {a}
  /\ activeTimer' = ActiveTimerAfter(agentStatuses, loading')
  /\ alerts' = CompletionAlerts(agentFirestoreStates, agentFirestoreStates',
                               isInitialLoad)
  /\ UNCHANGED <<statusBadge, badgeInput, workbook, coaReportsForDownload,
                 isInitialLoad, automatedMode, listener, allStatesData,
                 corsBlocked, loadingTimers, pollVars, pollTimer, sincePoll,
                 toggleVars>>

\* handleAgentAction past its guard, up to `await agent.action()`: the
\* optimistic update, setLoading and the REST request
StartAgentAction(a) ==
  /\ agentFirestoreStates' =
       [agentFirestoreStates EXCEPT ![a] = OptimisticEntry(@)]
  /\ loading' = AgentName(a)
  /\ actions' = actions (+) SetToBag({[agent |-> a, initialLoad |-> isInitialLoad]})
  /\ clicksAccepted' = clicksAccepted + 1
  /\ actionRequests' = actionRequests + 1
  /\ failedActions' = failedActions \ {a}
  /\ activeTimer' = ActiveTimerAfter(agentStatuses, loading')
  /\ alerts' = CompletionAlerts(agentFirestoreStates, agentFirestoreStates',
                               isInitialLoad)
  /\ UNCHANGED <<statusBadge, badgeInput, workbook, coaReportsForDownload,
                 store, isInitialLoad, automatedMode, listener, allStatesData,
                 corsBlocked, loadingTimers, pollVars, pollTimer, sincePoll,
                 toggleVars>>

\* variant: the handler without its automated-mode guard
HandleAgentActionUnguarded(a) == StartAgentAction(a)

\* the synchronous part of handleAgentAction: in automated mode it alerts
\* and returns
HandleAgentAction(a) ==
  IF automatedMode
  THEN alerts' = {<<"automated", AgentName(a)>>} /\ UNCHANGED stateVars
  ELSE StartAgentAction(a)

\* onClick of the action entry of an agent's dropdown menu; the menu is not
\* rendered while the card is loading and the button is disabled by isDisabled
AgentActionClick(a) ==
  /\ ~IsLoading(a)
  /\ ~IsDisabled(a)
  /\ HandleAgentAction(a)

\* how `await agent.action()` ends: "ok" (result.ok !== false), "failed"
\* (result.ok === false) or "error" (the call threw)
ActionOutcome(ev, okFalse) ==
  IF FetchWithErrorHandling(ev) = "json"
  THEN IF okFalse THEN "failed" ELSE "ok"
  ELSE "error"

\* the alert of the failure branches: shown unless the render that created
\* the handler had isInitialLoad
FailureAlertShown(act, ev, okFalse) ==
  ActionOutcome(ev, okFalse) # "ok" /\ ~act.initialLoad

\* alert(`${agent.name} failed: ...`) and alert(`${agent.name} error: ...`)
FailureAlerts(act, ev, okFalse) ==
  IF FailureAlertShown(act, ev, okFalse)
  THEN {<<ActionOutcome(ev, okFalse), AgentName(act.agent)>>}
  ELSE {}

\* variant: a failed request is sent again instead of being given up
ActionSettleRetry(act, ev, okFalse) ==
  /\ BagIn(act, actions)
  /\ ev \in EventsOf(corsBlocked)
  /\ IF ActionOutcome(ev, okFalse) = "ok"
     THEN /\ actions' = actions (-) SetToBag({act})
          /\ loadingTimers' = loadingTimers + 1
          /\ UNCHANGED actionRequests
     ELSE /\ actions' = actions
          /\ actionRequests' = actionRequests + 1
          /\ UNCHANGED loadingTimers
  /\ alerts' = {}
  /\ UNCHANGED <<statusBadge, badgeInput, failedActions, workbook,
                 coaReportsForDownload, store, isInitialLoad, automatedMode,
                 listener, allStatesData, corsBlocked, loading,
                 agentFirestoreStates, clicksAccepted, pollVars, clockVars,
                 toggleVars>>

\* the continuation of handleAgentAction after `await agent.action()`:
\* the try/else/catch branches and the finally block
ActionSettle(act, ev, okFalse) ==
  /\ BagIn(act, actions)
  /\ ev \in EventsOf(corsBlocked)
  /\ agentFirestoreStates' =
       IF ActionOutcome(ev, okFalse) = "ok"
       THEN agentFirestoreStates
       ELSE [agentFirestoreStates EXCEPT ![act.agent] = RevertedEntry(@)]
  /\ failedActions' =
       IF ActionOutcome(ev, okFalse) = "ok"
       THEN failedActions \ {act.agent}
       ELSE failedActions \cup {act.agent}
  /\ actions' = actions (-) SetToBag({act})
  /\ loadingTimers' = loadingTimers + 1
  /\ alerts' = CompletionAlerts(agentFirestoreStates, agentFirestoreStates',
                               isInitialLoad)
                  \cup FailureAlerts(act, ev, okFalse)
  /\ UNCHANGED <<statusBadge, badgeInput, workbook, coaReportsForDownload,
                 store, isInitialLoad, automatedMode, listener, allStatesData,
                 corsBlocked, loading, clicksAccepted, actionRequests,
                 pollVars, clockVars, toggleVars>>

\* setTimeout(() => setLoading(null), 3000) of the finally block
LoadingTimerFire ==
  /\ loadingTimers > 0
  /\ loading' = NoLoading
  /\ loadingTimers' = loadingTimers - 1
  /\ activeTimer' = IF loading = NoLoading THEN activeTimer
                    ELSE ActiveTimerAfter(agentStatuses, loading')
  /\ alerts' = {}
  /\ UNCHANGED <<statusBadge, badgeInput, failedActions, workbook,
                 coaReportsForDownload, store, isInitialLoad, automatedMode,
                 listener, allStatesData, corsBlocked, agentFirestoreStates,
                 actions, clicksAccepted, actionRequests, pollVars, pollTimer,
                 sincePoll, toggleVars>>

(***************************************************************************)
(* handleToggleAutomatedMode.                                              *)
(***************************************************************************)
\* the synchronous part, up to `await api.toggleAutomatedMode()`
HandleToggleAutomatedMode ==
  IF togglingAutomatedMode
  THEN alerts' = {} /\ UNCHANGED stateVars
  ELSE /\ automatedMode' = ~automatedMode
       /\ togglingAutomatedMode' = TRUE
       /\ toggleCall' = [pending |-> TRUE, newState |-> ~automatedMode,
                         initialLoad |-> isInitialLoad]
       /\ toggleRequests' = toggleRequests + 1
       /\ alerts' = {}
       /\ UNCHANGED <<statusBadge, badgeInput, failedActions, workbook,
                      coaReportsForDownload, store, isInitialLoad, listener,
                      allStatesData, corsBlocked, reconVars, pollVars,
                      clockVars>>

\* the continuation after `await api.toggleAutomatedMode()`; hasMessage:
\* the body carries a truthy `message`
ToggleSettle(ev, okFalse, hasMessage) ==
  /\ toggleCall.pending
  /\ ev \in EventsOf(corsBlocked)
  /\ automatedMode' =
       IF FetchWithErrorHandling(ev) = "json" /\ ~okFalse /\ hasMessage
       THEN automatedMode
       ELSE ~toggleCall.newState
  /\ togglingAutomatedMode' = FALSE
  /\ toggleCall' = NoToggleCall
  /\ alerts' = IF FetchWithErrorHandling(ev) # "json" /\ ~toggleCall.initialLoad
               THEN {<<"toggle error", "">>}
               ELSE {}
  /\ UNCHANGED <<statusBadge, badgeInput, failedActions, workbook,
                 coaReportsForDownload, store, isInitialLoad, listener,
                 allStatesData, corsBlocked, reconVars, pollVars, clockVars,
                 toggleRequests>>

(***************************************************************************)
(* The controls the rendered page binds to handlers that touch the state   *)
(* above: the action entries of the agent dropdown menus.  The automated   *)
(* mode switch is commented out, handleToggleAutomatedMode is bound to     *)
(* nothing.                                                                *)
(***************************************************************************)
\* variant: the automated mode switch is rendered
UIEventWithSwitch ==
  \/ \E a \in ActionAgents : AgentActionClick(a)
  \/ (toggleRequests < MaxClicks /\ ~togglingAutomatedMode
      /\ HandleToggleAutomatedMode)

\* the events the rendered controls can raise
UIEvent == \E a \in ActionAgents : AgentActionClick(a)

\* a UI event of the operator, within the budget of clicks
OperatorClick == clicksAccepted < MaxClicks /\ UIEvent

(***************************************************************************)
(* Status polling: the status effect and the active polling effect.        *)
(***************************************************************************)
\* one second passes; a due interval callback runs first
Tick ==
  /\ pollTimer > 0
  /\ activeTimer # 0
  /\ pollTimer' = pollTimer - 1
  /\ activeTimer' = IF activeTimer = NoTimer THEN NoTimer ELSE activeTimer - 1
  /\ sincePoll' = sincePoll + 1
  /\ alerts' = {}
  /\ UNCHANGED <<statusBadge, badgeInput, failedActions, workbook,
                 coaReportsForDownload, store, isInitialLoad, automatedMode,
                 listener, allStatesData, corsBlocked, reconVars, pollVars,
                 toggleVars>>

\* variant: the interval is longer
PollTimerFireSlow ==
  /\ pollTimer = 0
  /\ Len(polls) < MaxPolls
  /\ corsError' = FALSE
  /\ polls' = Append(polls, NewMainPoll)
  /\ pollTimer' = PollIntervalSec + 5
  /\ sincePoll' = 0
  /\ alerts' = {}
  /\ UNCHANGED <<statusBadge, badgeInput, failedActions, workbook,
                 coaReportsForDownload, store, isInitialLoad, automatedMode,
                 listener, allStatesData, corsBlocked, reconVars,
                 agentStatuses, activeTimer, toggleVars>>

\* the interval callback of the status effect: fetchStatuses() up to its
\* first await
PollTimerFire ==
  /\ pollTimer = 0
  /\ Len(polls) < MaxPolls
  /\ corsError' = FALSE
  /\ polls' = Append(polls, NewMainPoll)
  /\ pollTimer' = PollIntervalSec
  /\ sincePoll' = 0
  /\ alerts' = {}
  /\ UNCHANGED <<statusBadge, badgeInput, failedActions, workbook,
                 coaReportsForDownload, store, isInitialLoad, automatedMode,
                 listener, allStatesData, corsBlocked, reconVars,
                 agentStatuses, activeTimer, toggleVars>>

\* fetchStatuses after `await api.getAutomatedModeStatus()`, up to the first
\* `await api.getAgentStatus()`
PollAutoResponse(i, ev, active) ==
  /\ i \in 1..Len(polls)
  /\ polls[i].kind = "main"
  /\ polls[i].pc = 0
  /\ ev \in EventsOf(polls[i].blocked)
  /\ automatedMode' = IF FetchWithErrorHandling(ev) = "json" THEN active
                      ELSE automatedMode
  /\ corsError' = IF IsCorsError(FetchWithErrorHandling(ev)) THEN TRUE
                  ELSE corsError
  /\ polls' = [polls EXCEPT ![i].pc = 1, ![i].blocked = corsBlocked]
  /\ alerts' = {}
  /\ UNCHANGED <<statusBadge, badgeInput, failedActions, workbook,
                 coaReportsForDownload, store, isInitialLoad, listener,
                 allStatesData, corsBlocked, reconVars, agentStatuses,
                 clockVars, toggleVars>>

\* the `statuses` object after the response for agent pc
StatusesAfter(poll, ev, status) ==
  IF FetchWithErrorHandling(ev) = "json"
  THEN [poll.statuses EXCEPT ![AgentNames[poll.pc]] = status]
  ELSE poll.statuses

\* fetchStatuses of the status effect after `await api.getAgentStatus()`:
\* the next request, or setAgentStatuses(statuses) after the last one
PollAgentResponse(i, ev, status) ==
  /\ i \in 1..Len(polls)
  /\ polls[i].kind = "main"
  /\ polls[i].pc \in 1..Len(AgentNames)
  /\ ev \in EventsOf(polls[i].blocked)
  /\ IF polls[i].pc < Len(AgentNames)
     THEN /\ polls' = [polls EXCEPT ![i].pc = @ + 1,
                                    ![i].blocked = corsBlocked,
                                    ![i].statuses = StatusesAfter(polls[i], ev, status)]
          /\ UNCHANGED <<agentStatuses, activeTimer>>
     ELSE /\ polls' = RemoveAt(polls, i)
          /\ agentStatuses' = StatusesAfter(polls[i], ev, status)
          /\ activeTimer' = ActiveTimerAfter(agentStatuses', loading)
  /\ alerts' = {}
  /\ UNCHANGED <<statusBadge, badgeInput, failedActions, workbook,
                 coaReportsForDownload, store, isInitialLoad, automatedMode,
                 listener, allStatesData, corsBlocked, reconVars, corsError,
                 pollTimer, sincePoll, toggleVars>>

\* the interval callback of the active polling effect
ActivePollTimerFire ==
  /\ activeTimer = 0
  /\ Len(polls) < MaxPolls
  /\ polls' = Append(polls, NewActivePoll)
  /\ activeTimer' = ActivePollIntervalSec
  /\ sincePoll' = 0
  /\ alerts' = {}
  /\ UNCHANGED <<statusBadge, badgeInput, failedActions, workbook,
                 coaReportsForDownload, store, isInitialLoad, automatedMode,
                 listener, allStatesData, corsBlocked, reconVars, corsError,
                 agentStatuses, pollTimer, toggleVars>>

\* fetchStatuses of the active polling effect after `await api.getAgentStatus()`
ActivePollAgentResponse(i, ev, status) ==
  /\ i \in 1..Len(polls)
  /\ polls[i].kind = "active"
  /\ ev \in EventsOf(polls[i].blocked)
  /\ IF FetchWithErrorHandling(ev) = "json"
     THEN /\ agentStatuses' =
               [agentStatuses EXCEPT ![AgentNames[polls[i].pc]] = status]
          /\ activeTimer' = ActiveTimerAfter(agentStatuses', loading)
     ELSE UNCHANGED <<agentStatuses, activeTimer>>
  /\ polls' = IF polls[i].pc < Len(AgentNames)
              THEN [polls EXCEPT ![i].pc = @ + 1, ![i].blocked = corsBlocked]
              ELSE RemoveAt(polls, i)
  /\ alerts' = {}
  /\ UNCHANGED <<statusBadge, badgeInput, failedActions, workbook,
                 coaReportsForDownload, store, isInitialLoad, automatedMode,
                 listener, allStatesData, corsBlocked, reconVars, corsError,
                 pollTimer, sincePoll, toggleVars>>

(***************************************************************************)
(* getStatusBadge.                                                         *)
(***************************************************************************)
\* variant: the table before the state names were renamed
StateMappingOld(s) ==
  CASE s \in {"idle", "generating", "completed", "error"} -> s
    [] s \in {"active", "processing"} -> "generating"
    [] OTHER -> Absent

\* stateMapping[normalizedState]
StateMapping(s) ==
  CASE s \in {"generating", "processing", "active",
              "ACTIVE", "GENERATING", "PROCESSING"} -> "active"
    [] s \in {"completed", "error", "idle", "IDLE", "COMPLETED", "ERROR"} -> "idle"
    [] s = "constructor" -> JFunction \* inherited: Object.prototype.constructor
    [] s = "__proto__" -> JObject     \* inherited: Object.prototype
    [] OTHER -> Absent

\* the text of the badge: entry = agentFirestoreStates[agentName],
\* apiState = agentStatuses[agentName]?.state
StatusBadge(agentName, entry, timeState, apiState) ==
  LET s1 == IF entry.tag = "object"
            THEN Or3(entry.state, entry.status, entry.agent_state)
            ELSE Absent
      s2 == IF agentName = TimeSavingsAgent /\ ~Truthy(s1) /\ timeState.tag = "object"
            THEN Or3(timeState.state, timeState.time_agent_state, timeState.status)
            ELSE s1
      s3 == IF ~Truthy(s2) THEN apiState ELSE s2
      s4 == IF ~Truthy(s3) THEN "idle" ELSE s3
      normalizedState == IF IsString(s4) THEN ToLower(s4) ELSE "idle"
      mapped == StateMapping(normalizedState)
  IN  IF Truthy(mapped) THEN mapped ELSE "idle"

\* the badge of an agent card in the current render
GetStatusBadge(a) ==
  StatusBadge(a, agentFirestoreStates[a], NoTimeAgentState,
              IF a \in ActionAgents THEN agentStatuses[a] ELSE Absent)

\* state values an entry of agentFirestoreStates may carry
BadgeStates ==
  {Absent, "", JTrue, "idle", "active", "generating", "processing",
   "completed", "error", "IDLE", "ACTIVE", "GENERATING", "PROCESSING",
   "COMPLETED", "ERROR", "unknown", "constructor", "__proto__"}
BadgeEntries ==
  {UndefinedEntry, NullEntry}
    \cup {Obj(s, st, as, Absent) : s \in BadgeStates,
                                    st \in {Absent, "processing", "idle"},
                                    as \in {Absent, "active", "completed"}}
TimeAgentStates ==
  {NoTimeAgentState}
    \cup [tag : {"object"}, state : {Absent, "GENERATING", "error"},
          time_agent_state : {Absent, "active"}, status : {Absent, "idle"}]
BadgeInputs ==
  [agentName : AllAgents, entry : BadgeEntries, timeState : TimeAgentStates,
   apiState : RestStates \cup {Absent}]

\* one call getStatusBadge(agentName) of a render
GetStatusBadgeCall ==
  /\ statusBadge' = StatusBadge(badgeInput.agentName, badgeInput.entry,
                                badgeInput.timeState, badgeInput.apiState)
  /\ alerts' = {}
  /\ UNCHANGED <<badgeInput, failedActions, workbook, coaReportsForDownload,
                 store, isInitialLoad, automatedMode, listener, allStatesData,
                 corsBlocked, reconVars, pollVars, clockVars, toggleVars>>

(***************************************************************************)
(* COA report export (utils/exportExcel).  A report document is modelled   *)
(* by the fields the choice of the exported document reads: createdAt,     *)
(* data.created_at and the shape of data.student_reports.                  *)
(***************************************************************************)
\* a missing createdAt / created_at; getTime() of it is taken as 0
NoDate == 0
\* creation times in the documents
DateValues == {NoDate, 1, 2}
\* data.student_reports: "none" is missing or an empty array, "empty" is
\* reports of which none has standard_scores, "scored" is reports of which
\* some has a non-empty standard_scores array
ReportKinds == {"none", "empty", "scored"}
DocFields == [createdAt : DateValues, created_at : DateValues,
              student_reports : ReportKinds]
\* the lists of at most MaxDocs documents; id is the place in the list
DocumentLists ==
  UNION {{[i \in 1..n |-> [id |-> i, createdAt |-> f[i].createdAt,
                          created_at |-> f[i].created_at,
                          student_reports |-> f[i].student_reports]] :
            f \in [1..n -> DocFields]} : n \in 0..MaxDocs}

\* getDate(doc).getTime() of the comparator
GetDate(doc) ==
  IF doc.createdAt # NoDate THEN doc.createdAt
  ELSE IF doc.created_at # NoDate THEN doc.created_at
  ELSE 0

\* a sort into ascending order, newest last
InsertByDateAscending(sorted, d) ==
  LET k == Cardinality({i \in 1..Len(sorted) : GetDate(sorted[i]) <= GetDate(d)})
  IN  SubSeq(sorted, 1, k) \o <<d>> \o SubSeq(sorted, k + 1, Len(sorted))

\* one step of the stable sort: d goes behind every document that is not older
InsertByDate(sorted, d) ==
  LET k == Cardinality({i \in 1..Len(sorted) : GetDate(sorted[i]) >= GetDate(d)})
  IN  SubSeq(sorted, 1, k) \o <<d>> \o SubSeq(sorted, k + 1, Len(sorted))

RECURSIVE SortFirst(_, _)
SortFirst(docs, n) ==
  IF n = 0 THEN <<>> ELSE InsertByDate(SortFirst(docs, n - 1), docs[n])

\* [...documents].sort((a, b) => dateB.getTime() - dateA.getTime())
SortedDocs(docs) == SortFirst(docs, Len(docs))

HasStudentStandards(doc) == doc.student_reports = "scored"

\* latestDoc, or the newest document with standard scores when the latest
\* has student reports without any
DocumentToUse(docs) ==
  LET sortedDocs == SortedDocs(docs)
      latestDoc  == sortedDocs[1]
      scored     == {i \in 1..Len(sortedDocs) : HasStudentStandards(sortedDocs[i])}
  IN  IF latestDoc.student_reports = "empty" /\ scored # {}
        THEN sortedDocs[CHOOSE i \in scored : \A j \in scored : i <= j]
        ELSE latestDoc

\* the export button: exportCOAReportsToExcel(coaReportsForDownload)
ExportCOAReportsToExcel ==
  /\ IF Len(coaReportsForDownload) = 0
       THEN workbook' = workbook /\ alerts' = {<<"no reports", "">>}
       ELSE workbook' = <<DocumentToUse(coaReportsForDownload)>> /\ alerts' = {}
  /\ UNCHANGED <<statusBadge, badgeInput, failedActions,
                 coaReportsForDownload, store, isInitialLoad, automatedMode,
                 listener, allStatesData, corsBlocked, reconVars, pollVars,
                 clockVars, toggleVars>>

(***************************************************************************)
(* Specifications.  The dashboard is the composition of two subsystems     *)
(* that share automatedMode and loading:                                   *)
(*   - reconciliation: the all_states listener and handleAgentAction       *)
(*     (they write agentFirestoreStates, loading, automatedMode);          *)
(*   - polling: the two fetchStatuses loops (they write corsError,         *)
(*     agentStatuses, automatedMode).                                      *)
(* Spec lets the reconciliation subsystem run, against a backend that      *)
(* accepts the frontend origin, while the status requests stay unanswered; *)
(* its timers fire in any order.  PollSpec lets the polling subsystem run  *)
(* against the clock while the listener and the operator stay silent; its  *)
(* backend may reject the origin.  The other specifications each run one   *)
(* handler or one pure function.                                           *)
(***************************************************************************)
ListenerNext ==
  \/ \E data \in NextSnapshots(allStatesData) : AllStatesSnapshot(data)
  \/ AllStatesMissing
  \/ AllStatesError

ActionNext ==
  \/ OperatorClick
  \/ \E act \in ActionCalls, ev \in NetworkEvents, okFalse \in BOOLEAN :
       ActionSettle(act, ev, okFalse)
  \/ LoadingTimerFire

PollingNext ==
  \/ PollTimerFire
  \/ \E i \in 1..MaxPolls, ev \in NetworkEvents, active \in BOOLEAN :
       PollAutoResponse(i, ev, active)
  \/ \E i \in 1..MaxPolls, ev \in NetworkEvents, status \in RestStates :
       PollAgentResponse(i, ev, status)
  \/ ActivePollTimerFire
  \/ \E i \in 1..MaxPolls, ev \in NetworkEvents, status \in RestStates :
       ActivePollAgentResponse(i, ev, status)

Next ==
  \/ InitialLoadTimer
  \/ ListenerNext
  \/ ActionNext

Spec == OnlineInit /\ [][Next]_vars

PollNext ==
  \/ Tick
  \/ BackendFix
  \/ PollingNext

PollSpec == Init /\ [][PollNext]_vars

\* a burst of operator clicks on the agent controls, the continuations of
\* the requests and the 3 s timers, while the listener is silent
BurstClick == clicksAccepted < MaxBurst /\ UIEvent

BurstNext ==
  \/ InitialLoadTimer
  \/ BurstClick
  \/ \E act \in ActionCalls, ev \in NetworkEvents, okFalse \in BOOLEAN :
       ActionSettle(act, ev, okFalse)
  \/ LoadingTimerFire

BurstSpec == Init /\ [][BurstNext]_vars

\* handleToggleAutomatedMode invoked as the commented-out switch would
\* invoke it, with the listener reporting documents without automated_mode
\* going missing or failing
ToggleInvoke == toggleRequests < MaxToggles /\ HandleToggleAutomatedMode

ToggleNext ==
  \/ InitialLoadTimer
  \/ BackendFix
  \/ AllStatesMissing
  \/ AllStatesError
  \/ ToggleInvoke
  \/ \E ev \in NetworkEvents, okFalse \in BOOLEAN, hasMessage \in BOOLEAN :
       ToggleSettle(ev, okFalse, hasMessage)

ToggleSpec == Init /\ [][ToggleNext]_vars

\* the two writers of automatedMode outside the toggle: the all_states
\* listener and the automated-mode request of fetchStatuses
ModeNext ==
  \/ \E data \in NextSnapshots(allStatesData) : AllStatesSnapshot(data)
  \/ \E i \in 1..MaxPolls, ev \in NetworkEvents, active \in BOOLEAN :
       PollAutoResponse(i, ev, active)

ModeSpec == Init /\ [][ModeNext]_vars

\* getStatusBadge applied to every input of BadgeInputs
BadgeInit ==
  /\ corsBlocked = FALSE
  /\ AppInit
  /\ coaReportsForDownload = <<>>
  /\ badgeInput \in BadgeInputs

BadgeNext == GetStatusBadgeCall

BadgeSpec == BadgeInit /\ [][BadgeNext]_vars

\* the export applied to every list of at most MaxDocs report documents
ExportInit ==
  /\ corsBlocked = FALSE
  /\ AppInit
  /\ coaReportsForDownload \in DocumentLists
  /\ badgeInput = NoBadgeInput

ExportNext == ExportCOAReportsToExcel

ExportSpec == ExportInit /\ [][ExportNext]_vars

(***************************************************************************)
(* Properties.                                                             *)
(***************************************************************************)

\* an invocation of handleAgentAction for some agent that issues a request
\* or changes agentFirestoreStates or loading
EffectiveAgentAction ==
  \E a \in ActionAgents :
    /\ HandleAgentAction(a)
    /\ \/ actionRequests' # actionRequests
       \/ agentFirestoreStates' # agentFirestoreStates
       \/ loading' # loading

\* C1: while automatedMode is true no invocation of handleAgentAction can
\* issue an agent-action REST request or change agentFirestoreStates or
\* loading, and no step issues such a request.
C1_ManualControlsDisabled ==
  /\ [](automatedMode => ~ENABLED EffectiveAgentAction)
  /\ [][automatedMode => actionRequests' = actionRequests]_vars

\* automated mode is on while an action started earlier is still in flight
C1_Witness == automatedMode /\ actions # EmptyBag

\* C2: after an accepted click (automated mode off) the agent's entry has
\* state 'active', whatever it held before.
C2_OptimisticActive ==
  [][\A a \in ActionAgents :
       (AgentActionClick(a) /\ ~automatedMode)
         => agentFirestoreStates'[a].state = "active"]_vars

\* no callback of the all_states listener has run yet
NoSnapshotYet ==
  listener = "active" /\ \E b \in ActionAgents : agentFirestoreStates[b] = UndefinedEntry

\* C3: once a failed action (ok === false, or a throw) has been handled and
\* no snapshot arrived in between, the agent's entry has state 'idle'.
C3_RollbackIdle ==
  [][\A act \in ActionCalls, ev \in NetworkEvents, okFalse \in BOOLEAN :
       (/\ NoSnapshotYet
        /\ ActionSettle(act, ev, okFalse)
        /\ ActionOutcome(ev, okFalse) # "ok")
         => agentFirestoreStates'[act.agent].state = "idle"]_vars

\* C4: after a snapshot that carries data every entry is the one derived
\* from the document alone: {state, last_activity} when <apiName>_state is
\* neither undefined nor null, null otherwise, and no key for
\* time_savings_agent.  (A step of AllStatesSnapshot(data) leaves data in
\* allStatesData.)
C4_SnapshotOverrides ==
  [][(allStatesData' # <<>> /\ AllStatesSnapshot(allStatesData'[1])) =>
       LET data == allStatesData'[1]
       IN  /\ \A a \in ActionAgents :
                agentFirestoreStates'[a] =
                  IF data.state[a] \in StateValues
                  THEN [tag |-> "object", state |-> data.state[a],
                        status |-> Absent, agent_state |-> Absent,
                        last_activity |->
                          IF data.last_activity[a] = Absent THEN JNull
                          ELSE data.last_activity[a]]
                  ELSE NullEntry
           /\ agentFirestoreStates'[TimeSavingsAgent].tag = "undefined"]_vars

\* an action is in flight and its agent's entry is a plain snapshot entry:
\* the snapshot replaced the optimistic value
C4_Witness ==
  \E act \in BagToSet(actions) :
    /\ agentFirestoreStates[act.agent].tag = "object"
    /\ agentFirestoreStates[act.agent].status = Absent

\* C5: agent-action requests are issued by accepted clicks only, one per
\* click, and a listener that reported an error stays unsubscribed.
C5_NoRetry ==
  [][/\ (actionRequests' # actionRequests =>
           /\ UIEvent
           /\ actionRequests' = actionRequests + 1
           /\ clicksAccepted' = clicksAccepted + 1)
     /\ (listener = "errored" => listener' = "errored")]_vars

\* the listener has failed and a failed action has been reverted
C5_Witness ==
  /\ listener = "errored"
  /\ actions = EmptyBag
  /\ actionRequests > 0
  /\ \E a \in ActionAgents : agentFirestoreStates[a].status = "idle"

\* a REST call of the dashboard ends in CORS_ERROR in this step
CorsFailureHandled ==
  \/ \E i \in 1..MaxPolls, active \in BOOLEAN :
       PollAutoResponse(i, "failed_to_fetch", active)
  \/ \E i \in 1..MaxPolls, status \in RestStates :
       PollAgentResponse(i, "failed_to_fetch", status)
  \/ \E i \in 1..MaxPolls, status \in RestStates :
       ActivePollAgentResponse(i, "failed_to_fetch", status)
  \/ \E act \in ActionCalls, okFalse \in BOOLEAN :
       ActionSettle(act, "failed_to_fetch", okFalse)

\* C6: whenever a REST call fails with CORS_ERROR the banner is displayed.
C6_CorsBanner == [][CorsFailureHandled => corsError']_vars

\* C7: a status poll that started after the backend accepted the origin
\* completes with corsError false.
C7_BannerGoneAfterPoll ==
  [][\A i \in 1..MaxPolls, ev \in NetworkEvents, status \in RestStates :
       (/\ PollAgentResponse(i, ev, status)
        /\ polls[i].pc = Len(AgentNames)
        /\ ~polls[i].startBlocked)
         => ~corsError']_vars

\* the entry comes from a snapshot as it is
SnapshotEntry(e) == e.tag = "object" /\ e.status = Absent

C11_FrontendNeverWrites ==
  [][store' # store =>
       \/ AllStatesMissing
       \/ (store' # <<>> /\ AllStatesSnapshot(store'[1]))]_vars

\* the document exists and an agent action has been started and has settled
C11_Witness ==
  store # <<>> /\ clicksAccepted > 0 /\ actions = EmptyBag /\ loadingTimers = 0

\* the greatest creation time in the list handed to the export
LatestDate ==
  CHOOSE t \in {GetDate(coaReportsForDownload[i]) : i \in DOMAIN coaReportsForDownload} :
    \A i \in DOMAIN coaReportsForDownload : GetDate(coaReportsForDownload[i]) <= t

InFlight(a) ==
  CopiesIn([agent |-> a, initialLoad |-> TRUE], actions)
    + CopiesIn([agent |-> a, initialLoad |-> FALSE], actions)

\* C13 as stated: every agent has at most one action request in flight, and
\* while it has one, loading names the agent (its controls are disabled).
C13_OneRequestPerAgent ==
  \A a \in ActionAgents :
    /\ InFlight(a) <= 1
    /\ InFlight(a) > 0 => IsLoading(a)

\* C14 as stated: no '<agent> completed successfully' alert is raised for
\* an agent whose last action REST call has failed.
C14_NoCompletedAfterFailure ==
  \A a \in failedActions : <<"completed", AgentName(a)>> \notin alerts

\* C15: a step raises '<agent> completed successfully' exactly when the
\* agent is not time_savings_agent, the initial-load window is over and the
\* agent's entry goes from active/generating/processing to idle/completed.
C15_CompletedExactly ==
  [][\A a \in AllAgents :
       <<"completed", AgentName(a)>> \in alerts'
         <=> /\ a # TimeSavingsAgent
             /\ ~isInitialLoad'
             /\ WasActive(agentFirestoreStates[a])
             /\ IsNowIdle(agentFirestoreStates'[a])]_vars
C15_Witness ==
  \E a \in ActionAgents :
    /\ <<"completed", AgentName(a)>> \in alerts
    /\ ~isInitialLoad
    /\ IsNowIdle(agentFirestoreStates[a])

\* the toggle call threw or returned ok === false
ToggleFailed(ev, okFalse) == FetchWithErrorHandling(ev) # "json" \/ okFalse

\* C16 as stated: the continuation of the toggle sets automatedMode back to
\* the pre-toggle value if and only if the call failed; after a successful
\* call it leaves the value alone.
C16_RevertIffFailed ==
  [][\A ev \in NetworkEvents, okFalse \in BOOLEAN, hasMessage \in BOOLEAN :
       ToggleSettle(ev, okFalse, hasMessage) =>
         IF ToggleFailed(ev, okFalse)
         THEN automatedMode' = ~toggleCall.newState
         ELSE automatedMode' = automatedMode]_vars

\* C17 as stated, where the last snapshot is one that reported
\* automated_mode: while no toggle is pending, automatedMode is the value of
\* that snapshot.
C17_ModeFollowsSnapshot ==
  (/\ allStatesData # <<>>
   /\ allStatesData[1].automated_mode # Absent
   /\ ~toggleCall.pending)
    => (automatedMode <=> allStatesData[1].automated_mode = "ON")

\* C18 as stated: whenever the failure of an action is handled while
\* isInitialLoad is false, the step raises the error alert of the agent,
\* whenever the action was started.
C18_FailureAlertAfterWindow ==
  [][\A act \in ActionCalls, ev \in NetworkEvents, okFalse \in BOOLEAN :
       (/\ ActionSettle(act, ev, okFalse)
        /\ ActionOutcome(ev, okFalse) # "ok"
        /\ ~isInitialLoad)
         => <<ActionOutcome(ev, okFalse), AgentName(act.agent)>> \in alerts']_vars

\* the state the claimed priority order resolves: the Firestore-derived
\* value, for time_savings_agent the time_agent_state document, the REST
\* status, 'idle'
ResolvedState(in) ==
  LET fs == StateValueOf(in.entry)
      ts == IF in.agentName = TimeSavingsAgent /\ in.timeState.tag = "object"
            THEN Or3(in.timeState.state, in.timeState.time_agent_state,
                     in.timeState.status)
            ELSE Absent
  IN  IF Truthy(fs) THEN fs
      ELSE IF Truthy(ts) THEN ts
      ELSE IF Truthy(in.apiState) THEN in.apiState
      ELSE "idle"

\* C19 as stated: the badge shows 'active' when the state resolved by the
\* priority order is, in any letter case, active, generating or processing,
\* and 'idle' for every other value.
C19_BadgePriority ==
  statusBadge # Absent =>
    statusBadge =
      IF /\ IsString(ResolvedState(badgeInput))
         /\ ToLower(ResolvedState(badgeInput))
              \in {"active", "generating", "processing"}
      THEN "active"
      ELSE "idle"
====
